---------------------------- MODULE Spec2Model ----------------------------
(***************************************************************************)
(* Strongin's method of global search (kandrin_a_strongin_method):         *)
(* WorkSplitter, Calculate_M, Calculate_m, CalculateIndexOfMaxR and the    *)
(* GetMin loop, in its Sequential and its Parallel (MPI) instantiation.    *)
(*                                                                         *)
(* A C++ double is modelled as a rational <<numerator, denominator>> in     *)
(* lowest terms, with binary fixed-point precision: the doubles of a run   *)
(* are the multiples of 1 / doublesPerUnit, and every sum, difference,     *)
(* product and quotient is rounded to the nearest of them (ties to even),  *)
(* as IEEE 754 rounds to the nearest double.  0/0 is the not-a-number      *)
(* <<0, 0>>, which every operation propagates and every comparison rejects.*)
(***************************************************************************)
EXTENDS Integers, Sequences, FiniteSets, TLC

\* ------------------------------------------------------------- bounds
\* Largest number of MPI processes (procCount) of a run.
MaxProc == 4
\* Largest number of processes that all call GetMinSequential.
MaxSeqProc == 2
\* Model value of maxIterationCount (100000 in the code).
maxIterationCount == 3
\* Largest work and worker count handed to a WorkSplitter on its own.
MaxWork == 12
MaxWorkers == 6
\* Longest Segment collection handed to one sub-computation on its own.
MaxSegs == 4

\* ------------------------------------------------------------ doubles
RECURSIVE GCD(_, _)
GCD(x, y) == IF y = 0 THEN x ELSE GCD(y, x % y)

IAbs(n) == IF n < 0 THEN -n ELSE n

\* The number of doubles per unit of the real line in the run at hand.
VARIABLE doublesPerUnit

\* The rational n/d in lowest terms; n/0 is an infinity or the not-a-number.
Norm(n, d) ==
  IF d = 0
    THEN <<IF n > 0 THEN 1 ELSE IF n < 0 THEN -1 ELSE 0, 0>>
    ELSE LET s == IF d < 0 THEN -1 ELSE 1
             g == GCD(IAbs(n), IAbs(d))
         IN  <<(s * n) \div g, (s * d) \div g>>

\* The double nearest to the rational n/d, ties to the even one.
Round(n, d) ==
  IF d = 0 THEN Norm(n, d)
  ELSE LET s      == IF d < 0 THEN -1 ELSE 1
           scaled == s * n * doublesPerUnit
           q      == scaled \div (s * d)
           twice  == 2 * (scaled - q * s * d)
           up     == IF twice = s * d THEN q % 2 # 0 ELSE twice > s * d
       IN  Norm(IF up THEN q + 1 ELSE q, doublesPerUnit)

D(n) == <<n, 1>>
\* In each of the four, CHOOSE over the one-element set gives its element:
\* the operands x and y are evaluated once, whatever expressions they are.
DAdd(x, y) ==
  CHOOSE z \in {Round(u[1] * v[2] + v[1] * u[2], u[2] * v[2]) :
                  u \in {x}, v \in {y}} : TRUE
DSub(x, y) ==
  CHOOSE z \in {Round(u[1] * v[2] - v[1] * u[2], u[2] * v[2]) :
                  u \in {x}, v \in {y}} : TRUE
DMul(x, y) ==
  CHOOSE z \in {Round(u[1] * v[1], u[2] * v[2]) : u \in {x}, v \in {y}} : TRUE
DDiv(x, y) ==
  CHOOSE z \in {Round(u[1] * v[2], u[2] * v[1]) : u \in {x}, v \in {y}} : TRUE
DLess(x, y) == x[1] * y[2] < y[1] * x[2]
DGreater(x, y) == DLess(y, x)
\* std::abs
DAbs(x) == <<IAbs(x[1]), x[2]>>

\* DBL_MAX: larger in magnitude than every value the model computes.
DBL_MAX == 1000000
\* The not-a-number GetMin returns after maxIterationCount iterations.
NAN == <<0, 0>>

\* --------------------------------------------------------- WorkSplitter
\* The loop of the constructor's else branch (work > workerCount).
RECURSIVE WorkSplitterLoop(_, _, _, _)
WorkSplitterLoop(dist, currentWorker, work, workerCount) ==
  IF work = 0 THEN dist
  ELSE LET workForCurrentWorker == work \div workerCount
       IN  WorkSplitterLoop(
             [dist EXCEPT ![currentWorker] = work \div workerCount],
             currentWorker + 1, work - workForCurrentWorker, workerCount - 1)

\* The loop of the constructor's then branch (work <= workerCount).
RECURSIVE WorkSplitterOnes(_, _, _)
WorkSplitterOnes(dist, currentWorker, work) ==
  IF currentWorker < work
    THEN WorkSplitterOnes([dist EXCEPT ![currentWorker] = 1],
                          currentWorker + 1, work)
    ELSE dist

\* Faulty variant of the constructor: the remainder is lost (every worker gets
\* work / workerCount of the ORIGINAL work).
WorkSplitter_truncating(work, workerCount) ==
  IF work <= workerCount
    THEN WorkSplitterOnes([w \in 0 .. workerCount - 1 |-> 0], 0, work)
    ELSE [w \in 0 .. workerCount - 1 |-> work \div workerCount]

\* Faulty variant of the constructor: the then branch's loop runs one turn
\* too many.
WorkSplitter_offByOne(work, workerCount) ==
  IF work <= workerCount
    THEN [w \in 0 .. workerCount - 1 |-> IF w <= work THEN 1 ELSE 0]
    ELSE WorkSplitterLoop([w \in 0 .. workerCount - 1 |-> 0], 0,
                          work, workerCount)

\* Faulty variant of the constructor: the whole remainder goes to worker 0.
WorkSplitter_first(work, workerCount) ==
  IF work <= workerCount
    THEN WorkSplitterOnes([w \in 0 .. workerCount - 1 |-> 0], 0, work)
    ELSE [w \in 0 .. workerCount - 1 |->
            IF w = 0 THEN (work \div workerCount) + (work % workerCount)
                     ELSE work \div workerCount]

\* Faulty variant of the constructor: the remainder goes to the earliest
\* workers.
WorkSplitter_earlier(work, workerCount) ==
  IF work <= workerCount
    THEN WorkSplitterOnes([w \in 0 .. workerCount - 1 |-> 0], 0, work)
    ELSE [w \in 0 .. workerCount - 1 |->
            IF w < work % workerCount THEN (work \div workerCount) + 1
                                      ELSE work \div workerCount]

\* m_workDistribution of WorkSplitter(work, workerCount), indexed from 0.
WorkSplitter(work, workerCount) ==
  IF work <= workerCount
    THEN WorkSplitterOnes([w \in 0 .. workerCount - 1 |-> 0], 0, work)
    ELSE WorkSplitterLoop([w \in 0 .. workerCount - 1 |-> 0], 0,
                          work, workerCount)

GetPartWork(dist, workerNumber) == dist[workerNumber]

RECURSIVE GetPrevPartWorkLoop(_, _, _, _)
GetPrevPartWorkLoop(dist, workerNumber, i, work) ==
  IF i < workerNumber
    THEN GetPrevPartWorkLoop(dist, workerNumber, i + 1, work + dist[i])
    ELSE work

\* Faulty variant: the prefix sum includes worker workerNumber itself.
GetPrevPartWork_inclusive(dist, workerNumber) ==
  GetPrevPartWorkLoop(dist, workerNumber + 1, 0, 0)

GetPrevPartWork(dist, workerNumber) ==
  GetPrevPartWorkLoop(dist, workerNumber, 0, 0)

\* ------------------------------------------------- objective functions
\* The objective functions f the model passes to GetMin.
Functions == {"zero", "line", "vee", "sqr"}
\* Those among them GetMin is run on.
Objectives == {"zero", "line", "vee"}

\* f(x)
Apply(f, x) ==
  CASE f = "zero" -> D(0)
    [] f = "line" -> x
    [] f = "vee"  -> DAbs(DSub(x, D(1)))
    [] f = "sqr"  -> DMul(x, x)

\* A Segment.
Segment(begin, end) == [begin |-> begin, end |-> end]

\* std::pair<double, int>
Pair(first, second) == [first |-> first, second |-> second]

\* ---------------------------------------------- Calculate_M<Sequential>
RECURSIVE Calculate_M_Loop(_, _, _, _)
Calculate_M_Loop(f, y, i, M) ==
  IF i < Len(y)
    THEN LET y_begin    == y[i + 1].begin
             y_end      == y[i + 1].end
             zDif       == DSub(Apply(f, y_end), Apply(f, y_begin))
             yDif       == DSub(y_end, y_begin)
             currentMax == DAbs(DDiv(zDif, yDif))
         IN  CHOOSE z \in
               {Calculate_M_Loop(f, y, i + 1,
                                 IF DGreater(c, old) THEN c ELSE old) :
                  c \in {currentMax}, old \in {M}} : TRUE
    ELSE M

Calculate_M_Sequential(f, y) == Calculate_M_Loop(f, y, 0, D(0))

\* ---------------------------------------------------------- Calculate_m
\* The two assertions of Calculate_m.
Calculate_m_Asserts(M, r) == ~DLess(M, D(0)) /\ DGreater(r, D(1))

Calculate_m(M, r) == IF M = D(0) THEN D(1) ELSE DMul(r, M)

\* ------------------------------------- CalculateIndexOfMaxR<Sequential>
\* The characteristic R of one Segment.
Characteristic(f, seg, m) ==
  LET yDif == DSub(seg.end, seg.begin)
      zDif == DSub(Apply(f, seg.end), Apply(f, seg.begin))
      zSum == DAdd(Apply(f, seg.end), Apply(f, seg.begin))
  IN  DSub(DAdd(DMul(m, yDif), DDiv(DMul(zDif, zDif), DMul(m, yDif))),
           DMul(D(2), zSum))

RECURSIVE CalculateIndexOfMaxR_Loop(_, _, _, _, _)
CalculateIndexOfMaxR_Loop(f, y, m, i, maxR_Index) ==
  IF i < Len(y)
    THEN CHOOSE z \in
           {CalculateIndexOfMaxR_Loop(f, y, m, i + 1,
              IF DGreater(R, old.first) THEN Pair(R, i) ELSE old) :
                R \in {Characteristic(f, y[i + 1], m)},
                old \in {maxR_Index}} : TRUE
    ELSE maxR_Index

\* Faulty variant of line 186: the scan starts from DBL_MAX, not -DBL_MAX.
CalculateIndexOfMaxR_Sequential_unset(f, y, m) ==
  CalculateIndexOfMaxR_Loop(f, y, m, 0, Pair(D(DBL_MAX), -1))

\* Lines 186-207: the scan of all Segments from (-DBL_MAX, -1).
CalculateIndexOfMaxR_Sequential(f, y, m) ==
  CalculateIndexOfMaxR_Loop(f, y, m, 0, Pair(D(-DBL_MAX), -1))

\* ------------------------------------------------------------- state
VARIABLES
  procCount,        \* MPI_Comm_size: the number of processes of the run
  policy,           \* ExecutionPolicy of GetMin: "Sequential" or "Parallel"
  eager,            \* TRUE: MPI buffers sends and collectives need not
                    \* synchronise; FALSE: a send blocks until the matching
                    \* receive is posted, a collective until all have joined
  f, a, b, epsilon, \* the arguments of GetMin
  sequential,       \* the run of a lone GetMinSequential(f, a, b, epsilon)
  pc,               \* per process: the blocking call it stands at
  y,                \* per process: GetMin's std::vector<Segment> y
  iterationIndex,   \* per process: GetMin's loop counter
  M,                \* per process: GetMin's _M
  m,                \* per process: GetMin's m
  indexOfMaxR,      \* per process: GetMin's indexOfMaxR
  localY,           \* per process: localY of the Parallel sub-computations
  localM,           \* per process: M of Calculate_M<Parallel>
  localR,           \* per process: indexOfMaxR (local) of CalculateIndexOfMaxR
  procNum,          \* per process: procNum of the coordinator's loops
  distributedWork,  \* per process: distributedWork of CalculateIndexOfMaxR
  results,          \* per process: results of CalculateIndexOfMaxR<Parallel>
  ret,              \* per process: the value GetMin returned
  coll,             \* per process: the collective calls it has entered
  toWorker,         \* toWorker[p]: messages sent by rank 0 to rank p, in order
  toRoot,           \* toRoot[p]: messages sent by rank p to rank 0, in order
  ws                \* a WorkSplitter built on its own, and the last query

inputs == <<procCount, policy, eager, f, a, b, epsilon, sequential,
            doublesPerUnit>>
locals == <<pc, y, iterationIndex, M, m, indexOfMaxR, localY, localM, localR,
            procNum, distributedWork, results, ret, coll>>
channels == <<toWorker, toRoot>>
vars == <<inputs, locals, channels, ws>>

Procs == 0 .. procCount - 1

\* const double r = 2.0
r == D(2)

\* What an uninitialised double may hold.
Garbage == {D(-1), D(5)}

\* The local state of process p.
Local(p) ==
  [pc |-> pc[p], y |-> y[p], iterationIndex |-> iterationIndex[p],
   M |-> M[p], m |-> m[p], indexOfMaxR |-> indexOfMaxR[p],
   localY |-> localY[p], localM |-> localM[p], localR |-> localR[p],
   procNum |-> procNum[p], distributedWork |-> distributedWork[p],
   results |-> results[p], ret |-> ret[p], coll |-> coll[p]]

\* Process p's local state becomes s.
Store(p, s) ==
  \E n \in {s} :
    /\ pc' = [pc EXCEPT ![p] = n.pc]
    /\ y' = [y EXCEPT ![p] = n.y]
    /\ iterationIndex' = [iterationIndex EXCEPT ![p] = n.iterationIndex]
    /\ M' = [M EXCEPT ![p] = n.M]
    /\ m' = [m EXCEPT ![p] = n.m]
    /\ indexOfMaxR' = [indexOfMaxR EXCEPT ![p] = n.indexOfMaxR]
    /\ localY' = [localY EXCEPT ![p] = n.localY]
    /\ localM' = [localM EXCEPT ![p] = n.localM]
    /\ localR' = [localR EXCEPT ![p] = n.localR]
    /\ procNum' = [procNum EXCEPT ![p] = n.procNum]
    /\ distributedWork' = [distributedWork EXCEPT ![p] = n.distributedWork]
    /\ results' = [results EXCEPT ![p] = n.results]
    /\ ret' = [ret EXCEPT ![p] = n.ret]
    /\ coll' = [coll EXCEPT ![p] = n.coll]

\* The local state of a process that has just entered GetMin(f, a, b, epsilon).
Entered(y0) ==
  [pc |-> "GetMin", y |-> y0, iterationIndex |-> 0,
   M |-> D(0), m |-> D(0), indexOfMaxR |-> Pair(D(0), 0),
   localY |-> <<>>, localM |-> D(0), localR |-> Pair(D(0), 0),
   procNum |-> 0, distributedWork |-> 0,
   results |-> <<>>, ret |-> NAN, coll |-> <<>>]

\* A message: the bytes sent (data); kind and iter say which call sent them
\* and are not read by the receiver.
Message(kind, iter, data) == [kind |-> kind, iter |-> iter, data |-> data]

\* Process p calls a collective: MPI_Reduce, where every process gives a
\* value, or MPI_Bcast, where only the root's buffer is read.
EnterCollective(p, s, kind, value, at) ==
  [s EXCEPT !.coll = Append(@, [kind |-> kind, iter |-> s.iterationIndex,
                                value |-> IF kind = "Bcast" /\ p # 0
                                            THEN "unread" ELSE value]),
            !.pc = at]

\* Whether every process has entered its k-th collective.
AllEntered(k) == \A q \in Procs : Len(coll[q]) >= k

\* WorkSplitter workSplitter(y.size(), procCount)
workSplitter(s) == WorkSplitter(Len(s.y), procCount)

\* Faulty variant of the loops' guard: a message for every procNum, also for
\* one without work.
NextWorking_every(dist, from) == from

\* Faulty variant of the loops' guard: no procNum passes it.
NextWorking_none(dist, from) == procCount

\* The next procNum >= from the coordinator's loop has a message for.
RECURSIVE NextWorking(_, _)
NextWorking(dist, from) ==
  IF from < procCount /\ GetPartWork(dist, from) = 0
    THEN NextWorking(dist, from + 1)
    ELSE from

\* Faulty variant of the coordinator's own slice: the whole collection.
Prefix_whole(s) == s.y

\* std::vector<Segment>(y.begin(), y.begin() + workForThisProc)
Prefix(s) == SubSeq(s.y, 1, GetPartWork(workSplitter(s), 0))

\* Faulty variant of the slice sent: it starts at the first Segment,
\* whatever from.
Slice_fromStart(s, from, work) == SubSeq(s.y, 1, work)

\* &y.at(from), work * sizeof(Segment) bytes
Slice(s, from, work) == SubSeq(s.y, from + 1, from + work)

\* ------------------------------------------------ Calculate_M<Parallel>
\* Faulty variant of lines 141-145: a process without Segments leaves
\* Calculate_M before MPI_Reduce.
M_Local_early(p, s) ==
  LET local == Calculate_M_Sequential(f, s.localY)
  IN  IF s.localY = <<>>
        THEN EnterCollective(p, [s EXCEPT !.M = D(0)], "Bcast", D(0), "M_Bcast")
        ELSE EnterCollective(p, [s EXCEPT !.localM = local],
                             "Reduce", local, "M_Reduce")

\* Lines 141-145: Calculate_M<Sequential> on localY, then the call of
\* MPI_Reduce with the local maximum.
M_Local(p, entered) ==
  CHOOSE next \in {
    LET local == Calculate_M_Sequential(f, s.localY)
    IN  EnterCollective(p, [s EXCEPT !.localM = local],
                        "Reduce", local, "M_Reduce")
    : s \in {entered}} : TRUE

\* Line 312: the call of Calculate_M<ExecutionPolicy>, up to its first
\* blocking call.  Sequential: the whole of Calculate_M<Sequential> and the
\* call of MPI_Bcast of line 313.
Begin_Calculate_M(p, entered) ==
  CHOOSE next \in {
    IF policy = "Sequential"
      THEN LET whole == Calculate_M_Sequential(f, s.y)
           IN  EnterCollective(p, [s EXCEPT !.M = whole],
                               "Bcast", whole, "M_Bcast")
      ELSE LET dist == workSplitter(s)
           IN  IF p = 0
                 THEN LET first == NextWorking(dist, 1)
                      IN  IF first < procCount
                            THEN [s EXCEPT !.pc = "M_Send", !.procNum = first]
                            ELSE M_Local(p, [s EXCEPT !.procNum = first,
                                                   !.localY = Prefix(s)])
                 ELSE IF GetPartWork(dist, p) # 0
                        THEN [s EXCEPT !.pc = "M_Recv"]
                        ELSE M_Local(p, [s EXCEPT !.localY = <<>>])
    : s \in {entered}} : TRUE

\* Faulty variant of MPI_Reduce's operation: the minimum instead of the maximum.
RECURSIVE Reduce_MIN(_, _, _)
Reduce_MIN(k, q, acc) ==
  IF q < procCount
    THEN Reduce_MIN(k, q + 1,
           IF DLess(coll[q][k].value, acc) THEN coll[q][k].value ELSE acc)
    ELSE acc

\* MPI_MAX over the values the processes q, q+1, ... gave to their k-th
\* collective, starting from acc.
RECURSIVE Reduce_MAX(_, _, _)
Reduce_MAX(k, q, acc) ==
  IF q < procCount
    THEN Reduce_MAX(k, q + 1,
           IF DGreater(coll[q][k].value, acc) THEN coll[q][k].value ELSE acc)
    ELSE acc

\* The bytes MPI_Recv leaves in a buffer of work Segments (value-initialised
\* by std::vector<Segment>(work)) when the message holds data.
Received(data, work) ==
  [i \in 1 .. work |-> IF i <= Len(data) THEN data[i]
                                         ELSE Segment(D(0), D(0))]

\* -------------------------------------------------------------- GetMin
\* Faulty variant of the loop condition: one iteration too many.
Loop_inclusive(p, s) ==
  IF s.iterationIndex <= maxIterationCount
    THEN Begin_Calculate_M(p, s)
    ELSE [s EXCEPT !.pc = "exhausted", !.ret = NAN]

\* Lines 309-312 and 339: the loop condition, then the next iteration or the
\* return of NAN.
Loop(p, entered) ==
  CHOOSE next \in {
    IF s.iterationIndex < maxIterationCount
      THEN Begin_Calculate_M(p, s)
      ELSE [s EXCEPT !.pc = "exhausted", !.ret = NAN]
    : s \in {entered}} : TRUE

\* Faulty variant of the convergence test: <= instead of <.
Converged_inclusive(seg) == ~DLess(epsilon, DSub(seg.end, seg.begin))

\* Line 324: y_end - y_begin < epsilon
Converged(seg) == DLess(DSub(seg.end, seg.begin), epsilon)

\* Lines 327-328: the new point yn.
NewPoint(fn, seg, mm) ==
  DAdd(DAdd(seg.begin, DDiv(DSub(seg.end, seg.begin), D(2))),
       DDiv(DSub(Apply(fn, seg.end), Apply(fn, seg.begin)), DMul(D(2), mm)))

\* Faulty variant of lines 329-330: the new Segment is inserted before the
\* winning one, not appended.
Split_inserted(ys, index, yn) ==
  SubSeq(ys, 1, index)
    \o <<Segment(ys[index + 1].begin, yn), Segment(yn, ys[index + 1].end)>>
    \o SubSeq(ys, index + 2, Len(ys))

\* Lines 329-330: y.push_back(Segment{y_begin, yn}); y.at(index).begin = yn.
Split(ys, index, yn) ==
  [Append(ys, Segment(ys[index + 1].begin, yn)) EXCEPT ![index + 1].begin = yn]

\* Lines 321-330 and the loop's increment: the winning Segment is inspected;
\* GetMin returns f(y_end), or splits the Segment and goes on.
InspectAndSplit(p, entered) ==
  CHOOSE next \in {
    LET index == s.indexOfMaxR.second
    IN  IF index < 0 \/ index >= Len(s.y)
          THEN [s EXCEPT !.pc = "out_of_range"]
          ELSE LET currentSegment == s.y[index + 1]
               IN  IF Converged(currentSegment)
                     THEN [s EXCEPT !.pc = "converged",
                                    !.ret = Apply(f, currentSegment.end)]
                     ELSE Loop(p, [s EXCEPT
                            !.y = Split(s.y, index,
                                        NewPoint(f, currentSegment, s.m)),
                            !.iterationIndex = @ + 1])
    : s \in {entered}} : TRUE

\* --------------------------------------- CalculateIndexOfMaxR<Parallel>
\* Faulty variant of std::max_element: the last of the largest elements.
RECURSIVE max_element_last(_, _, _, _)
max_element_last(res, n, it, largest) ==
  IF it < n
    THEN max_element_last(res, n, it + 1,
           IF DLess(res[it].first, res[largest].first) THEN largest ELSE it)
    ELSE largest

\* std::max_element over results[it..n-1] by first component, largest so far
\* at index largest: the first of the largest elements.
RECURSIVE max_element(_, _, _, _)
max_element(res, n, it, largest) ==
  IF it < n
    THEN max_element(res, n, it + 1,
           IF DLess(res[largest].first, res[it].first) THEN it ELSE largest)
    ELSE largest

\* Faulty variant of lines 281-285: the local index is returned uncorrected.
Selected_uncorrected(res, dist) ==
  res[max_element(res, procCount, 1, 0)]

\* Lines 275-285: the largest pair, its index moved by GetPrevPartWork of the
\* process it came from.
Selected(res, dist) ==
  LET indexOfMaxElement == max_element(res, procCount, 1, 0)
  IN  Pair(res[indexOfMaxElement].first,
           res[indexOfMaxElement].second
             + GetPrevPartWork(dist, indexOfMaxElement))

\* Lines 275-285 and 316-318 at the coordinator: CalculateIndexOfMaxR returns
\* the selected pair and GetMin calls MPI_Bcast with it.
R_Select(p, entered) ==
  CHOOSE next \in {
    LET sel == Selected(s.results, workSplitter(s))
    IN  EnterCollective(p, [s EXCEPT !.indexOfMaxR = sel],
                        "Bcast", sel, "R_Bcast")
    : s \in {entered}} : TRUE

\* Lines 244-268 at the coordinator: its own slice, its local pair, the
\* results vector, and the gather loop up to its first MPI_Recv.
R_Local_Root(p, entered) ==
  CHOOSE next \in {
    LET dist  == workSplitter(s)
        mine  == Prefix(s)
        local == CalculateIndexOfMaxR_Sequential(f, mine, s.m)
        first == NextWorking(dist, 1)
        s1    == [s EXCEPT !.localY = mine, !.localR = local,
                           !.results = [q \in Procs |->
                              IF q = 0 THEN local ELSE Pair(D(-DBL_MAX), -1)],
                           !.procNum = first]
    IN  IF first < procCount THEN [s1 EXCEPT !.pc = "R_Gather"]
                             ELSE R_Select(p, s1)
    : s \in {entered}} : TRUE

\* Lines 253-254 and 287-294 at another process: its local pair, then the
\* MPI_Send of it, or (no work) the return of {} and GetMin's MPI_Bcast.
R_Local_Worker(p, entered) ==
  CHOOSE next \in {
    LET local == CalculateIndexOfMaxR_Sequential(f, s.localY, s.m)
        s1    == [s EXCEPT !.localR = local]
    IN  IF GetPartWork(workSplitter(s), p) # 0
          THEN [s1 EXCEPT !.pc = "R_Result"]
          ELSE EnterCollective(p, [s1 EXCEPT !.indexOfMaxR = Pair(D(0), 0)],
                               "Bcast", Pair(D(0), 0), "R_Bcast")
    : s \in {entered}} : TRUE

\* Lines 315-316: the call of CalculateIndexOfMaxR<ExecutionPolicy>, up to
\* its first blocking call.  Sequential: the whole of
\* CalculateIndexOfMaxR<Sequential> and the call of MPI_Bcast of line 318.
Begin_CalculateIndexOfMaxR(p, entered) ==
  CHOOSE next \in {
    IF policy = "Sequential"
      THEN LET whole == CalculateIndexOfMaxR_Sequential(f, s.y, s.m)
           IN  EnterCollective(p, [s EXCEPT !.indexOfMaxR = whole],
                               "Bcast", whole, "R_Bcast")
      ELSE LET dist == workSplitter(s)
           IN  IF p = 0
                 THEN LET first == NextWorking(dist, 1)
                          s1 == [s EXCEPT
                                   !.distributedWork = GetPartWork(dist, 0),
                                   !.procNum = first]
                      IN  IF first < procCount
                            THEN [s1 EXCEPT !.pc = "R_Send"]
                            ELSE R_Local_Root(p, s1)
                 ELSE IF GetPartWork(dist, p) # 0
                        THEN [s EXCEPT !.pc = "R_Recv"]
                        ELSE R_Local_Worker(p, [s EXCEPT !.localY = <<>>])
    : s \in {entered}} : TRUE

\* Faulty variant of lines 313-314: m is taken from the process's own local
\* maximum, not from the broadcast _M.
After_M_Bcast_local(p, s) ==
  Begin_CalculateIndexOfMaxR(p, [s EXCEPT !.m = Calculate_m(s.localM, r)])

\* Lines 313-316: _M is what MPI_Bcast left in it; Calculate_m with its two
\* assertions; then CalculateIndexOfMaxR.
After_M_Bcast(p, entered) ==
  CHOOSE next \in {
    IF ~Calculate_m_Asserts(s.M, r)
      THEN [s EXCEPT !.pc = "assert_failed"]
      ELSE Begin_CalculateIndexOfMaxR(p, [s EXCEPT !.m = Calculate_m(s.M, r)])
    : s \in {entered}} : TRUE

\* ------------------------------------------------------------ actions
\* Whether process p's k-th collective, an MPI_Reduce to rank 0, can return.
ReduceReady(p, k) == IF p = 0 THEN AllEntered(k) ELSE eager \/ AllEntered(k)

\* Whether process p's k-th collective, an MPI_Bcast from rank 0, can return.
BcastReady(p, k) == Len(coll[0]) >= k /\ (eager \/ AllEntered(k))

\* Faulty variant of MPI_Bcast: the buffer of another process keeps its own
\* value.
BcastValue_own(k, own) == own

\* What MPI_Bcast leaves in a buffer that held own: the value the root gave.
BcastValue(k, own) == coll[0][k].value

\* Whether an MPI_Send to rank dest can return.
SendToWorkerReady(dest) == eager \/ pc[dest] \in {"M_Recv", "R_Recv"}

\* Whether an MPI_Send of rank p to rank 0 can return.
SendToRootReady(p) == eager \/ (pc[0] = "R_Gather" /\ procNum[0] = p)

\* Process p calls GetMin (line 303) and runs to its first blocking call.
GetMin(p) ==
  /\ pc[p] = "GetMin"
  /\ Store(p, Loop(p, Local(p)))
  /\ UNCHANGED <<inputs, channels, ws>>

\* Lines 123-132, one turn of the loop: the coordinator sends procNum its
\* slice; after the last, its own slice, local maximum and MPI_Reduce call.
M_Send ==
  /\ procCount > 0
  /\ pc[0] = "M_Send"
  /\ LET s    == Local(0)
         dist == workSplitter(s)
         dest == s.procNum
         workForProc     == GetPartWork(dist, dest)
         workForPrevProc == GetPrevPartWork(dist, dest)
         next == NextWorking(dist, dest + 1)
         s1   == [s EXCEPT !.procNum = next]
     IN  /\ SendToWorkerReady(dest)
         /\ toWorker' = [toWorker EXCEPT ![dest] =
              Append(@, Message("M_slice", s.iterationIndex,
                                Slice(s, workForPrevProc, workForProc)))]
         /\ Store(0, IF next < procCount
                       THEN s1
                       ELSE M_Local(0, [s1 EXCEPT !.localY = Prefix(s)]))
  /\ UNCHANGED <<inputs, toRoot, ws>>

\* Lines 134-145: process p receives its slice, takes the local maximum and
\* calls MPI_Reduce.
M_Recv(p) ==
  /\ p # 0
  /\ pc[p] = "M_Recv"
  /\ toWorker[p] # <<>>
  /\ LET s == Local(p)
         workForThisProc == GetPartWork(workSplitter(s), p)
         msg == Head(toWorker[p])
     IN  Store(p, IF Len(msg.data) > workForThisProc
                    THEN [s EXCEPT !.pc = "mpi_error"]
                    ELSE M_Local(p, [s EXCEPT !.localY =
                                    Received(msg.data, workForThisProc)]))
  /\ toWorker' = [toWorker EXCEPT ![p] = Tail(@)]
  /\ UNCHANGED <<inputs, toRoot, ws>>

\* Lines 145-147 and 312-313: MPI_Reduce returns.  At rank 0 result is the
\* maximum; elsewhere result was never written.  Then GetMin calls MPI_Bcast.
M_Reduce(p) ==
  /\ pc[p] = "M_Reduce"
  /\ LET s == Local(p)
         k == Len(s.coll)
     IN  /\ ReduceReady(p, k)
         /\ \E result \in (IF p = 0
                             THEN {Reduce_MAX(k, 1, coll[0][k].value)}
                             ELSE Garbage) :
              Store(p, EnterCollective(p, [s EXCEPT !.M = result],
                                       "Bcast", result, "M_Bcast"))
  /\ UNCHANGED <<inputs, channels, ws>>

\* Lines 313-316: MPI_Bcast of _M returns; m; CalculateIndexOfMaxR begins.
M_Bcast(p) ==
  /\ pc[p] = "M_Bcast"
  /\ LET s == Local(p)
         k == Len(s.coll)
     IN  /\ BcastReady(p, k)
         /\ Store(p, After_M_Bcast(p, [s EXCEPT !.M = BcastValue(k, s.M)]))
  /\ UNCHANGED <<inputs, channels, ws>>

\* Lines 234-244, one turn of the loop: the coordinator sends procNum its
\* slice, found by the running sum distributedWork.
R_Send ==
  /\ procCount > 0
  /\ pc[0] = "R_Send"
  /\ LET s    == Local(0)
         dist == workSplitter(s)
         dest == s.procNum
         workForProc == GetPartWork(dist, dest)
         next == NextWorking(dist, dest + 1)
         s1   == [s EXCEPT !.procNum = next,
                           !.distributedWork = @ + workForProc]
     IN  /\ SendToWorkerReady(dest)
         /\ toWorker' = [toWorker EXCEPT ![dest] =
              Append(@, Message("R_slice", s.iterationIndex,
                                Slice(s, s.distributedWork, workForProc)))]
         /\ Store(0, IF next < procCount THEN s1 ELSE R_Local_Root(0, s1))
  /\ UNCHANGED <<inputs, toRoot, ws>>

\* Lines 246-254: process p receives its slice and takes its local pair.
R_Recv(p) ==
  /\ p # 0
  /\ pc[p] = "R_Recv"
  /\ toWorker[p] # <<>>
  /\ LET s == Local(p)
         workForThisProc == GetPartWork(workSplitter(s), p)
         msg == Head(toWorker[p])
     IN  Store(p, IF Len(msg.data) > workForThisProc
                    THEN [s EXCEPT !.pc = "mpi_error"]
                    ELSE R_Local_Worker(p, [s EXCEPT !.localY =
                                    Received(msg.data, workForThisProc)]))
  /\ toWorker' = [toWorker EXCEPT ![p] = Tail(@)]
  /\ UNCHANGED <<inputs, toRoot, ws>>

\* Lines 288-294 and 316-318: process p sends its local pair to rank 0,
\* returns {} and calls MPI_Bcast.
R_Result(p) ==
  /\ p # 0
  /\ pc[p] = "R_Result"
  /\ SendToRootReady(p)
  /\ LET s == Local(p)
     IN  /\ toRoot' = [toRoot EXCEPT ![p] =
              Append(@, Message("R_result", s.iterationIndex, s.localR))]
         /\ Store(p, EnterCollective(p,
                        [s EXCEPT !.indexOfMaxR = Pair(D(0), 0)],
                        "Bcast", Pair(D(0), 0), "R_Bcast"))
  /\ UNCHANGED <<inputs, toWorker, ws>>

\* Lines 263-285, one turn of the loop: the coordinator receives procNum's
\* pair; after the last, it selects the largest and calls MPI_Bcast.
R_Gather ==
  /\ procCount > 0
  /\ pc[0] = "R_Gather"
  /\ LET s    == Local(0)
         src  == s.procNum
         next == NextWorking(workSplitter(s), src + 1)
     IN  /\ toRoot[src] # <<>>
         /\ LET s1 == [s EXCEPT !.results[src] = Head(toRoot[src]).data,
                                !.procNum = next]
            IN  Store(0, IF next < procCount THEN s1 ELSE R_Select(0, s1))
         /\ toRoot' = [toRoot EXCEPT ![src] = Tail(@)]
  /\ UNCHANGED <<inputs, toWorker, ws>>

\* Lines 318-330: MPI_Bcast of indexOfMaxR returns; the winning Segment is
\* inspected; GetMin returns or splits it and begins the next iteration.
R_Bcast(p) ==
  /\ pc[p] = "R_Bcast"
  /\ LET s == Local(p)
         k == Len(s.coll)
     IN  /\ BcastReady(p, k)
         /\ Store(p, InspectAndSplit(p,
                       [s EXCEPT !.indexOfMaxR = BcastValue(k, s.indexOfMaxR)]))
  /\ UNCHANGED <<inputs, channels, ws>>

\* ------------------------------------------ GetMinSequential on its own
\* One pass of the loop of GetMin<Sequential>(fn, ., ., eps) (lines 309-330)
\* in a lone process, whose MPI_Bcast calls leave its values as they are.
GetMinSequentialPass(fn, eps, s) ==
  IF s.pc # "iterating" THEN s
  ELSE IF ~(s.iterationIndex < maxIterationCount)
    THEN [s EXCEPT !.pc = "exhausted", !.ret = NAN]
  ELSE CHOOSE next \in
         {IF rec.second < 0 \/ rec.second >= Len(s.y)
            THEN [s EXCEPT !.pc = "out_of_range"]
            ELSE LET currentSegment == s.y[rec.second + 1]
                 IN  IF DLess(DSub(currentSegment.end, currentSegment.begin),
                              eps)
                       THEN [s EXCEPT !.pc = "converged",
                                      !.ret = Apply(fn, currentSegment.end)]
                       ELSE [s EXCEPT
                              !.y = Split(s.y, rec.second,
                                          NewPoint(fn, currentSegment, mm)),
                              !.iterationIndex = @ + 1] :
            mm \in {Calculate_m(Calculate_M_Sequential(fn, s.y), r)},
            rec \in {CalculateIndexOfMaxR_Sequential(fn, s.y,
                       Calculate_m(Calculate_M_Sequential(fn, s.y), r))}}
         : TRUE

\* The states of a lone process between the passes: run, followed by the
\* states after the next k passes.
RECURSIVE GetMinSequentialRun(_, _, _, _)
GetMinSequentialRun(fn, eps, run, k) ==
  IF k = 0 THEN run
  ELSE CHOOSE z \in
         {GetMinSequentialRun(fn, eps, Append(run, next), k - 1) :
            next \in {GetMinSequentialPass(fn, eps, run[Len(run)])}} : TRUE

\* GetMinSequential(f, a, b, epsilon) in a lone process: its state on entry
\* and after each of maxIterationCount + 1 passes, the last being its return.
GetMinSequential(fn, lo, hi, eps) ==
  GetMinSequentialRun(fn, eps,
    <<[pc |-> "iterating", y |-> <<Segment(lo, hi)>>, iterationIndex |-> 0,
       ret |-> NAN]>>,
    maxIterationCount + 1)

\* ------------------------------------------------------ specification
\* The intervals [a, b] and the tolerances epsilon of the runs.
Intervals == {<<D(0), D(2)>>}
Epsilons == {<<1, 4>>, D(1), <<3, 2>>, D(4)}
\* The tolerances and precisions of the runs: the tolerances above at 64
\* doubles per unit, and a tolerance below the distance of two doubles.
Precisions == (Epsilons \X {64}) \cup {<<<<1, 8>>, 2>>}

\* No WorkSplitter is being examined.
NoWorkSplitter ==
  [work |-> 0, workerCount |-> 0, built |-> FALSE, dist |-> <<>>,
   workerNumber |-> -1, prev |-> 0]

\* Every process of the run stands in the local state st[p].
Processes(st) ==
  /\ pc = [p \in Procs |-> st[p].pc]
  /\ y = [p \in Procs |-> st[p].y]
  /\ iterationIndex = [p \in Procs |-> st[p].iterationIndex]
  /\ M = [p \in Procs |-> st[p].M]
  /\ m = [p \in Procs |-> st[p].m]
  /\ indexOfMaxR = [p \in Procs |-> st[p].indexOfMaxR]
  /\ localY = [p \in Procs |-> st[p].localY]
  /\ localM = [p \in Procs |-> st[p].localM]
  /\ localR = [p \in Procs |-> st[p].localR]
  /\ procNum = [p \in Procs |-> st[p].procNum]
  /\ distributedWork = [p \in Procs |-> st[p].distributedWork]
  /\ results = [p \in Procs |-> st[p].results]
  /\ ret = [p \in Procs |-> st[p].ret]
  /\ coll = [p \in Procs |-> st[p].coll]
  /\ toWorker = [p \in Procs |-> <<>>]
  /\ toRoot = [p \in Procs |-> <<>>]

\* Every process of the pool calls GetMin<policy>(f, a, b, epsilon).
Init ==
  /\ policy \in {"Sequential", "Parallel"}
  /\ procCount \in 1 .. (IF policy = "Sequential" THEN MaxSeqProc ELSE MaxProc)
  /\ eager \in BOOLEAN
  /\ f \in Objectives
  /\ \E interval \in Intervals : a = interval[1] /\ b = interval[2]
  /\ \E precision \in Precisions :
       epsilon = precision[1] /\ doublesPerUnit = precision[2]
  /\ sequential = GetMinSequential(f, a, b, epsilon)
  /\ Processes([p \in Procs |-> Entered(<<Segment(a, b)>>)])
  /\ ws = NoWorkSplitter

Next ==
  \/ \E p \in Procs : GetMin(p)
  \/ M_Send
  \/ \E p \in Procs : M_Recv(p)
  \/ \E p \in Procs : M_Reduce(p)
  \/ \E p \in Procs : M_Bcast(p)
  \/ R_Send
  \/ \E p \in Procs : R_Recv(p)
  \/ \E p \in Procs : R_Result(p)
  \/ R_Gather
  \/ \E p \in Procs : R_Bcast(p)

Spec == Init /\ [][Next]_vars

\* Every process calls GetMinParallel where MPI_Send returns only when the
\* matching receive is posted and a collective only when all have joined;
\* a process that can take a step is not delayed for ever.
InitRendezvous == Init /\ policy = "Parallel" /\ ~eager

SpecRendezvous == InitRendezvous /\ [][Next]_vars /\ WF_vars(Next)

\* ------------------------------------------- WorkSplitter on its own
\* WorkSplitter workSplitter(work, workerCount)
WS_Construct ==
  /\ ~ws.built
  /\ ws' = [ws EXCEPT !.built = TRUE,
                      !.dist = WorkSplitter(ws.work, ws.workerCount)]
  /\ UNCHANGED <<inputs, locals, channels>>

\* workSplitter.GetPrevPartWork(workerNumber)
WS_GetPrevPartWork(workerNumber) ==
  /\ ws.built
  /\ ws' = [ws EXCEPT !.workerNumber = workerNumber,
                      !.prev = GetPrevPartWork(ws.dist, workerNumber)]
  /\ UNCHANGED <<inputs, locals, channels>>

\* No process runs GetMin.
NoRun ==
  /\ procCount = 0
  /\ policy = "Parallel"
  /\ eager = TRUE
  /\ f = "zero"
  /\ a = D(0)
  /\ b = D(0)
  /\ epsilon = D(0)
  /\ doublesPerUnit = 64
  /\ sequential = <<>>
  /\ Processes(<<>>)

InitWS ==
  /\ NoRun
  /\ \E work \in 0 .. MaxWork, workerCount \in 1 .. MaxWorkers :
       ws = [NoWorkSplitter EXCEPT !.work = work, !.workerCount = workerCount]

NextWS ==
  \/ WS_Construct
  \/ \E workerNumber \in 0 .. ws.workerCount : WS_GetPrevPartWork(workerNumber)

SpecWS == InitWS /\ [][NextWS]_vars

\* ------------------------------------ the sub-computations on their own
\* The Segments of the collections handed to one sub-computation.
SegmentPool == {Segment(D(0), D(1)), Segment(D(0), D(2))}

\* The Segment collections of length least .. MaxSegs.
Collections(least) == UNION {[1 .. n -> SegmentPool] : n \in least .. MaxSegs}

\* The correction values m handed to CalculateIndexOfMaxR.
Corrections == {D(1), D(2)}

\* Every process of the pool calls Calculate_M<Parallel>(f, y).
InitM ==
  /\ procCount \in 1 .. MaxProc
  /\ policy = "Parallel"
  /\ eager \in BOOLEAN
  /\ f \in Functions
  /\ a = D(0)
  /\ b = D(2)
  /\ epsilon = D(1)
  /\ doublesPerUnit = 64
  /\ sequential = <<>>
  /\ \E ys \in Collections(0) :
       \E st \in {[p \in Procs |-> Begin_Calculate_M(p, Entered(ys))]} :
         Processes(st)
  /\ ws = NoWorkSplitter

NextM ==
  \/ M_Send
  \/ \E p \in Procs : M_Recv(p)
  \/ \E p \in Procs : M_Reduce(p)

SpecM == InitM /\ [][NextM]_vars

\* Every process of the pool calls CalculateIndexOfMaxR<Parallel>(f, y, m).
InitR ==
  /\ procCount \in 1 .. MaxProc
  /\ policy = "Parallel"
  /\ eager \in BOOLEAN
  /\ f \in Functions
  /\ a = D(0)
  /\ b = D(2)
  /\ epsilon = D(1)
  /\ doublesPerUnit = 64
  /\ sequential = <<>>
  /\ \E ys \in Collections(1), mm \in Corrections :
       \E st \in {[p \in Procs |->
            Begin_CalculateIndexOfMaxR(p, [Entered(ys) EXCEPT !.m = mm])]} :
         Processes(st)
  /\ ws = NoWorkSplitter

NextR ==
  \/ R_Send
  \/ \E p \in Procs : R_Recv(p)
  \/ \E p \in Procs : R_Result(p)
  \/ R_Gather

SpecR == InitR /\ [][NextR]_vars

\* ============================================================ claims
\* The sum of the entries of workers 0 .. n-1, taken from the last one down.
RECURSIVE SumOfParts(_, _)
SumOfParts(dist, n) ==
  IF n = 0 THEN 0 ELSE GetPartWork(dist, n - 1) + SumOfParts(dist, n - 1)

Floor(work, workerCount) == work \div workerCount
Ceil(work, workerCount) == (work + workerCount - 1) \div workerCount

\* C5: for unitCount > 0 and workerCount > 0 the entries of a WorkSplitter
\* sum to unitCount, GetPrevPartWork(workerCount) is unitCount, and
\* GetPrevPartWork(k) is the sum of the entries of workers 0 .. k-1 for every
\* k in 0 .. workerCount (also the one last queried).
C5_DistributionSums ==
  (ws.built /\ ws.work > 0) =>
    /\ SumOfParts(ws.dist, ws.workerCount) = ws.work
    /\ GetPrevPartWork(ws.dist, ws.workerCount) = ws.work
    /\ \A k \in 0 .. ws.workerCount :
         GetPrevPartWork(ws.dist, k) = SumOfParts(ws.dist, k)
    /\ ws.workerNumber >= 0 => ws.prev = SumOfParts(ws.dist, ws.workerNumber)

\* 7 units over 3 workers, and GetPrevPartWork(3) has returned 7.
C5_Witness ==
  /\ ws.built /\ ws.work = 7 /\ ws.workerCount = 3
  /\ ws.workerNumber = 3 /\ ws.prev = 7

\* C6: for unitCount <= workerCount (unitCount = 0 and unitCount =
\* workerCount included) workers 0 .. unitCount-1 get 1 unit each and every
\* other worker gets 0.
C6_OneUnitEach ==
  (ws.built /\ ws.work <= ws.workerCount) =>
    \A w \in 0 .. ws.workerCount - 1 :
      GetPartWork(ws.dist, w) = IF w < ws.work THEN 1 ELSE 0

\* 2 units over 4 workers: 1, 1, 0, 0.
C6_Witness ==
  /\ ws.built /\ ws.work = 2 /\ ws.workerCount = 4
  /\ ws.dist[1] = 1 /\ ws.dist[2] = 0

\* C7 as claimed: when unitCount > workerCount every worker whose index is
\* below unitCount mod workerCount gets at least ceil(unitCount/workerCount).
C7_Original ==
  (ws.built /\ ws.work > ws.workerCount) =>
    \A w \in 0 .. ws.workerCount - 1 :
      w < ws.work % ws.workerCount =>
        GetPartWork(ws.dist, w) >= Ceil(ws.work, ws.workerCount)

\* C7, amended: when unitCount > workerCount the remainder goes to the later
\* workers: a worker whose index is at least workerCount - (unitCount mod
\* workerCount) gets ceil(unitCount/workerCount), every earlier worker
\* floor(unitCount/workerCount).
C7_RemainderToLaterWorkers ==
  (ws.built /\ ws.work > ws.workerCount) =>
    \A w \in 0 .. ws.workerCount - 1 :
      GetPartWork(ws.dist, w) =
        IF w >= ws.workerCount - (ws.work % ws.workerCount)
          THEN Ceil(ws.work, ws.workerCount)
          ELSE Floor(ws.work, ws.workerCount)

\* 8 units over 3 workers: 2, 3, 3.
C7_Witness ==
  /\ ws.built /\ ws.work = 8 /\ ws.workerCount = 3
  /\ ws.dist[0] = 2 /\ ws.dist[1] = 3 /\ ws.dist[2] = 3

\* C8: for unitCount > 0 and workerCount > 0 every entry is
\* floor(unitCount/workerCount) or ceil(unitCount/workerCount), and any two
\* entries differ by at most 1.
C8_FloorOrCeil ==
  (ws.built /\ ws.work > 0) =>
    /\ \A w \in 0 .. ws.workerCount - 1 :
         GetPartWork(ws.dist, w) \in {Floor(ws.work, ws.workerCount),
                                      Ceil(ws.work, ws.workerCount)}
    /\ \A v, w \in 0 .. ws.workerCount - 1 :
         GetPartWork(ws.dist, v) - GetPartWork(ws.dist, w) <= 1

\* 11 units over 4 workers: entries 2 and 3 both occur.
C8_Witness ==
  /\ ws.built /\ ws.work = 11 /\ ws.workerCount = 4
  /\ \E v, w \in 0 .. 3 : ws.dist[v] = 2 /\ ws.dist[w] = 3

\* |f(end) - f(begin)| / (end - begin) of one Segment.
Slope(seg) ==
  DAbs(DDiv(DSub(Apply(f, seg.end), Apply(f, seg.begin)),
            DSub(seg.end, seg.begin)))

\* C1: once the coordinator holds the pair of the distributed
\* CalculateIndexOfMaxR, that pair is the pair the single-worker
\* CalculateIndexOfMaxR returns on the whole collection: the same value, and
\* the index in the whole collection, which is the winning process's local
\* index plus its GetPrevPartWork.
C1_SelectionEqualsSequential ==
  (procCount > 0 /\ pc[0] = "R_Bcast") =>
    LET whole == CalculateIndexOfMaxR_Sequential(f, y[0], m[0])
        dist  == WorkSplitter(Len(y[0]), procCount)
        got   == indexOfMaxR[0]
    IN  /\ got = whole
        /\ got.second \in 0 .. Len(y[0]) - 1
        /\ got.first = Characteristic(f, y[0][got.second + 1], m[0])
        /\ \E q \in Procs :
             /\ GetPartWork(dist, q) # 0
             /\ localR[q].first = got.first
             /\ got.second = localR[q].second + GetPrevPartWork(dist, q)

\* 4 Segments over 3 processes (1, 1, 2): the coordinator holds index 3,
\* which process 2 found at its local index 1.
C1_Witness ==
  /\ procCount = 3 /\ pc[0] = "R_Bcast" /\ Len(y[0]) = 4
  /\ indexOfMaxR[0].second = 3 /\ localR[2].second = 1

\* C2: once MPI_Reduce has returned at the coordinator, its value is the
\* single-worker Calculate_M of the whole collection: at least the slope of
\* every Segment and the slope of one of them, or 0 for no Segment; a process
\* without work gave 0.
C2_ReductionEqualsSequential ==
  (procCount > 0 /\ pc[0] = "M_Bcast") =>
    LET dist == WorkSplitter(Len(y[0]), procCount)
    IN  /\ M[0] = Calculate_M_Sequential(f, y[0])
        /\ \A i \in 1 .. Len(y[0]) : ~DLess(M[0], Slope(y[0][i]))
        /\ IF y[0] = <<>> THEN M[0] = D(0)
                          ELSE \E i \in 1 .. Len(y[0]) : M[0] = Slope(y[0][i])
        /\ \A q \in Procs :
             GetPartWork(dist, q) = 0 => coll[q][1].value = D(0)

\* 3 Segments over 4 processes: the maximum is larger than the coordinator's
\* local maximum, and process 3 has no work.
C2_Witness ==
  /\ procCount = 4 /\ pc[0] = "M_Bcast" /\ Len(y[0]) = 3
  /\ DLess(localM[0], M[0])

\* GetMin has returned in process p.
Returned(p) == pc[p] \in {"converged", "exhausted"}

\* C3: when every process calls GetMinParallel with the same arguments, any
\* two processes that have returned did so in the same iteration, in the same
\* terminal state and with the same value.
C3_SameReturn ==
  policy = "Parallel" =>
    \A p, q \in Procs :
      (Returned(p) /\ Returned(q)) =>
        /\ pc[p] = pc[q]
        /\ iterationIndex[p] = iterationIndex[q]
        /\ ret[p] = ret[q]

\* Four processes have all returned from GetMinParallel as converged, after
\* at least one split.
C3_Witness ==
  /\ policy = "Parallel" /\ procCount = 4
  /\ \A p \in Procs : pc[p] = "converged" /\ iterationIndex[p] >= 1

\* C4: in GetMinSequential and in GetMinParallel with 1, 2 and 4 processes, a
\* process that has made k splits holds the Segment collection a lone
\* GetMinSequential holds after k splits (so the winning index and the new
\* point agree in every iteration), and a process that has returned has
\* returned in the iteration, in the state and with the value of the lone
\* GetMinSequential.
C4_SameRunAsSequential ==
  LET final == sequential[Len(sequential)]
  IN  \A p \in Procs :
        LET lone == sequential[iterationIndex[p] + 1]
        IN  /\ lone.iterationIndex = iterationIndex[p]
            /\ y[p] = lone.y
            /\ Returned(p) =>
                 /\ pc[p] = final.pc
                 /\ iterationIndex[p] = final.iterationIndex
                 /\ ret[p] = final.ret

\* GetMinParallel has returned as converged in the last of 4 processes,
\* after two splits.
C4_Witness ==
  /\ policy = "Parallel" /\ procCount = 4
  /\ pc[3] = "converged" /\ iterationIndex[3] = 2 /\ Len(y[3]) = 3

\* C9: a process that has made maxIterationCount splits has returned the
\* not-a-number with maxIterationCount + 1 Segments and no error; no process
\* makes more splits or enters a collective of a further iteration; and a
\* process returns exhausted only so.
C9_Exhaustion ==
  \A p \in Procs :
    /\ iterationIndex[p] <= maxIterationCount
    /\ Len(y[p]) = iterationIndex[p] + 1
    /\ iterationIndex[p] = maxIterationCount <=> pc[p] = "exhausted"
    /\ pc[p] = "exhausted" => ret[p] = NAN
    /\ \A k \in 1 .. Len(coll[p]) : coll[p][k].iter < maxIterationCount

\* Every one of 3 processes of GetMinParallel has returned exhausted.
C9_Witness ==
  /\ policy = "Parallel" /\ procCount = 3
  /\ \A p \in Procs : pc[p] = "exhausted" /\ Len(y[p]) = maxIterationCount + 1

\* The step of process p in which MPI_Bcast of indexOfMaxR returns.
InspectStep(p) == pc[p] = "R_Bcast" /\ pc'[p] # "R_Bcast"

\* C10, every iteration: the step that inspects the winning Segment (the one at
\* the broadcast index) returns converged exactly when end - begin < epsilon;
\* it then returns f(end) and leaves the collection and the counter alone;
\* otherwise it adds one Segment.
C10_ConvergedStep ==
  \A p \in Procs :
    InspectStep(p) =>
      LET index == indexOfMaxR'[p].second
          seg   == y[p][index + 1]
      IN  /\ index \in 0 .. Len(y[p]) - 1
          /\ pc'[p] = "converged" <=> DLess(DSub(seg.end, seg.begin), epsilon)
          /\ pc'[p] = "converged" =>
               /\ ret'[p] = Apply(f, seg.end)
               /\ y'[p] = y[p]
               /\ iterationIndex'[p] = iterationIndex[p]
          /\ pc'[p] # "converged" =>
               /\ Len(y'[p]) = Len(y[p]) + 1
               /\ iterationIndex'[p] = iterationIndex[p] + 1

\* C10, the boundary: with epsilon larger than b - a a process that has
\* returned has returned converged in the first iteration, with the single
\* Segment (a, b) and the value f(b).
C10_LargeEpsilon ==
  DLess(DSub(b, a), epsilon) =>
    \A p \in Procs :
      Returned(p) =>
        /\ pc[p] = "converged" /\ iterationIndex[p] = 0
        /\ y[p] = <<Segment(a, b)>>
        /\ ret[p] = Apply(f, b)

\* C10: in any iteration GetMin returns converged if and only if the winning
\* Segment is shorter than epsilon, returning f(end) without a split; with
\* epsilon larger than b - a it returns f(b) in the first iteration.
C10_Convergence == [][C10_ConvergedStep]_vars /\ []C10_LargeEpsilon

\* A process of GetMinParallel has returned f(end) of a winning Segment that
\* is not the first of its collection, after a split.
C10_Witness ==
  /\ policy = "Parallel" /\ procCount >= 2
  /\ \E p \in Procs \ {0} :
       /\ pc[p] = "converged" /\ iterationIndex[p] >= 1
       /\ indexOfMaxR[p].second >= 1
       /\ ret[p] = Apply(f, y[p][indexOfMaxR[p].second + 1].end)

\* Process p stands at a blocking call that cannot return in this state.
Blocked(p) ==
  CASE pc[p] \in {"M_Send", "R_Send"} -> ~SendToWorkerReady(procNum[p])
    [] pc[p] \in {"M_Recv", "R_Recv"} -> toWorker[p] = <<>>
    [] pc[p] = "M_Reduce" -> ~ReduceReady(p, Len(coll[p]))
    [] pc[p] \in {"M_Bcast", "R_Bcast"} -> ~BcastReady(p, Len(coll[p]))
    [] pc[p] = "R_Result" -> ~SendToRootReady(p)
    [] pc[p] = "R_Gather" -> toRoot[procNum[p]] = <<>>
    [] OTHER -> pc[p] # "GetMin"

\* C11, safety: unless every process has returned, some process stands at a
\* call that can return; no process ends in an error; no process makes more
\* than maxIterationCount iterations.
C11_NoDeadlock ==
  /\ (\A p \in Procs : Returned(p)) \/ (\E p \in Procs : ~Blocked(p))
  /\ \A p \in Procs :
       /\ pc[p] \notin {"out_of_range", "assert_failed", "mpi_error"}
       /\ iterationIndex[p] <= maxIterationCount

\* C11: with rendezvous sends and synchronising collectives GetMinParallel
\* never deadlocks, and under weak fairness every process eventually returns,
\* converged or exhausted, after at most maxIterationCount iterations.
C11_Termination ==
  []C11_NoDeadlock /\ <>(\A p \in Procs : Returned(p))

\* Four processes have all returned exhausted, by rendezvous.
C11_Witness ==
  /\ ~eager /\ procCount = 4
  /\ \A p \in Procs : pc[p] = "exhausted"

\* Process p is past the broadcast of _M of its iteration and before the
\* broadcast of the record.
AfterFirstBroadcast(p) ==
  pc[p] \in {"R_Send", "R_Recv", "R_Result", "R_Gather", "R_Bcast"}

\* The number, in the order of a process's collective calls, of the broadcast
\* of _M that process p last took part in.
BroadcastOfM(p) == IF pc[p] = "R_Bcast" THEN Len(coll[p]) - 1 ELSE Len(coll[p])

\* C12, in every state: two processes of GetMinParallel in the same iteration
\* hold the same collection, and a process between the two broadcasts holds
\* the M the coordinator gave to the broadcast and the m computed from it.
C12_SameState ==
  policy = "Parallel" =>
    /\ \A p, q \in Procs : iterationIndex[p] = iterationIndex[q] => y[p] = y[q]
    /\ \A p \in Procs :
         AfterFirstBroadcast(p) =>
           /\ M[p] = coll[0][BroadcastOfM(p)].value
           /\ M[p] = M[0] \/ iterationIndex[0] > iterationIndex[p]
                          \/ Returned(0)
           /\ m[p] = Calculate_m(M[p], r)

\* C12, in the step that inspects the winning Segment: the record process p
\* uses is the one the coordinator gave to the broadcast.
C12_SameRecord ==
  \A p \in Procs :
    (policy = "Parallel" /\ InspectStep(p)) =>
      indexOfMaxR'[p] = coll[0][Len(coll[p])].value

\* C12: replica agreement in GetMinParallel: identical collections at the
\* start of an iteration, and after the broadcasts the coordinator's M, m and
\* record in every process, whatever the process computed itself.
C12_ReplicaAgreement ==
  []C12_SameState /\ [][C12_SameRecord]_vars

\* Process 2 of 3 has returned with the coordinator's record, which is not
\* the placeholder pair of its own, and the coordinator's M, after a split.
C12_Witness ==
  /\ policy = "Parallel" /\ procCount = 3 /\ pc[2] = "converged"
  /\ iterationIndex[2] >= 1
  /\ indexOfMaxR[2] = coll[0][Len(coll[2])].value
  /\ indexOfMaxR[2] # Pair(D(0), 0)
  /\ M[2] = coll[0][Len(coll[2]) - 1].value

\* The Segments of ys are linked end to begin from a to b: every begin is a
\* or the end of another Segment, every end is b or the begin of another
\* Segment, and no two Segments share a begin or an end.
Linked(ys) ==
  \A i \in 1 .. Len(ys) :
    /\ \/ ys[i].begin = a
       \/ \E j \in 1 .. Len(ys) : j # i /\ ys[j].end = ys[i].begin
    /\ ys[i].end = b \/ \E j \in 1 .. Len(ys) : j # i /\ ys[j].begin = ys[i].end
    /\ \A j \in 1 .. Len(ys) :
         j # i => ys[j].begin # ys[i].begin /\ ys[j].end # ys[i].end

\* C13: for a < b, in every process every Segment has begin < end, and the
\* Segments cover [a, b] with no gap and no overlap: ordered by begin, each
\* one ends where the next begins, the first begins at a, the last ends at b.
C13_ExactCover ==
  DLess(a, b) =>
    \A p \in Procs :
      /\ \A i \in 1 .. Len(y[p]) : DLess(y[p][i].begin, y[p][i].end)
      /\ Linked(y[p])

\* C14, every step: the collection of a process changes only in the step that
\* inspects the winning Segment, and then so: the Segment (begin, end) at the
\* broadcast index becomes (yn, end), (begin, yn) is appended, every other
\* Segment stays where and what it was; yn is the new point of lines 327-328.
\* A step that inspects and does not return makes this change.
C14_SplitStep ==
  \A p \in Procs :
    /\ (InspectStep(p) /\ pc'[p] # "converged") => y'[p] # y[p]
    /\ y'[p] # y[p] =>
         /\ InspectStep(p)
         /\ LET index == indexOfMaxR'[p].second
                old   == y[p][index + 1]
                yn    == NewPoint(f, old, m[p])
            IN  /\ Len(y'[p]) = Len(y[p]) + 1
                /\ y'[p][index + 1] = Segment(yn, old.end)
                /\ y'[p][Len(y[p]) + 1] = Segment(old.begin, yn)
                /\ \A i \in 1 .. Len(y[p]) :
                     i # index + 1 => y'[p][i] = y[p][i]

\* C14: each iteration that does not return splits the winning Segment in
\* place and appends the other part, changing nothing else, so a process
\* holds k + 1 Segments after k iterations.
C14_FrameEffect ==
  /\ [][C14_SplitStep]_vars
  /\ [](\A p \in Procs : Len(y[p]) = iterationIndex[p] + 1)

\* Process 1 of 2 has split the Segment at index 1 in its second iteration:
\* the appended third Segment ends where the second now begins.
C14_Witness ==
  /\ policy = "Parallel" /\ procCount = 2
  /\ iterationIndex[1] = 2 /\ Len(y[1]) = 3
  /\ y[1][3].end = y[1][2].begin
  /\ DLess(y[1][3].begin, y[1][3].end)

\* The pair is the first of the largest characteristics of ys under mm: no
\* Segment has a larger one, every Segment before it a smaller one.
FirstOfLargest(pair, ys, mm) ==
  /\ pair.second \in 0 .. Len(ys) - 1
  /\ pair.first = Characteristic(f, ys[pair.second + 1], mm)
  /\ \A i \in 1 .. Len(ys) :
       /\ ~DLess(pair.first, Characteristic(f, ys[i], mm))
       /\ i < pair.second + 1 => DLess(Characteristic(f, ys[i], mm), pair.first)

\* C15: among the Segments of the largest characteristic both forms select
\* the one of the smallest index: the single-worker scan, the distributed
\* form, each working process in its slice; and the coordinator takes the
\* lowest-numbered process that reports the largest value.
C15_FirstOfTies ==
  (procCount > 0 /\ pc[0] = "R_Bcast") =>
    LET dist == WorkSplitter(Len(y[0]), procCount)
    IN  /\ FirstOfLargest(CalculateIndexOfMaxR_Sequential(f, y[0], m[0]),
                          y[0], m[0])
        /\ FirstOfLargest(indexOfMaxR[0], y[0], m[0])
        /\ \A q \in Procs :
             GetPartWork(dist, q) # 0 =>
               /\ results[0][q] = localR[q]
               /\ FirstOfLargest(localR[q], localY[q], m[0])
        /\ \E q \in Procs :
             /\ results[0][q].first = indexOfMaxR[0].first
             /\ indexOfMaxR[0].second
                  = results[0][q].second + GetPrevPartWork(dist, q)
             /\ \A o \in 0 .. q - 1 :
                  DLess(results[0][o].first, results[0][q].first)

\* 4 Segments over 3 processes (1, 1, 2): processes 1 and 2 report the same
\* largest value, process 2 holds it twice, and index 1 is selected.
C15_Witness ==
  /\ procCount = 3 /\ pc[0] = "R_Bcast" /\ Len(y[0]) = 4
  /\ results[0][1].first = results[0][2].first
  /\ DLess(results[0][0].first, results[0][1].first)
  /\ y[0][3] = y[0][4] /\ localR[2].second = 0
  /\ indexOfMaxR[0].second = 1

\* The Segments of ys from index GetPrevPartWork(q) to
\* GetPrevPartWork(q) + GetPartWork(q) - 1, counted from 0.
RangeOf(ys, q) ==
  LET dist == WorkSplitter(Len(ys), procCount)
  IN  SubSeq(ys, GetPrevPartWork(dist, q) + 1,
             GetPrevPartWork(dist, q) + GetPartWork(dist, q))

\* The local slices of the processes q, q + 1, ... one after another.
RECURSIVE SlicesFrom(_)
SlicesFrom(q) == IF q < procCount THEN localY[q] \o SlicesFrom(q + 1) ELSE <<>>

\* Whether process p holds a slice of its present iteration: of Calculate_M
\* (first set) or of CalculateIndexOfMaxR (second set).
HoldsSlice(p) ==
  \/ pc[p] \in {"M_Reduce", "M_Bcast"}
  \/ pc[p] \in {"R_Result", "R_Gather", "R_Bcast"}
  \/ p # 0 /\ pc[p] = "R_Recv"

\* C16: in both distributed sub-computations the slice a process computes on
\* is the range GetPrevPartWork(p) .. GetPrevPartWork(p) + GetPartWork(p) - 1
\* of the collection, the coordinator's when both are in the same iteration;
\* the slices follow one another without gap or overlap and, when all
\* processes hold one of the same iteration, together are the collection;
\* the running sum distributedWork is GetPrevPartWork of
\* the process sent to; and the slice a process is about to receive was sent
\* for the sub-computation and the iteration it is in.
C16_Slices ==
  policy = "Parallel" =>
    /\ \A p \in Procs :
         /\ HoldsSlice(p) =>
              /\ localY[p] = RangeOf(y[p], p)
              /\ iterationIndex[p] = iterationIndex[0]
                   => localY[p] = RangeOf(y[0], p)
         /\ (p # 0 /\ toWorker[p] # <<>>) =>
              /\ pc[p] = "M_Recv" =>
                   /\ Head(toWorker[p]).kind = "M_slice"
                   /\ Head(toWorker[p]).iter = iterationIndex[p]
                   /\ Head(toWorker[p]).data = RangeOf(y[p], p)
              /\ pc[p] = "R_Recv" =>
                   /\ Head(toWorker[p]).kind = "R_slice"
                   /\ Head(toWorker[p]).iter = iterationIndex[p]
                   /\ Head(toWorker[p]).data = RangeOf(y[p], p)
    /\ (\A q \in Procs :
          HoldsSlice(q) /\ iterationIndex[q] = iterationIndex[0]) =>
         /\ SlicesFrom(0) = y[0]
         /\ LET dist == WorkSplitter(Len(y[0]), procCount)
            IN  /\ GetPrevPartWork(dist, 0) = 0
                /\ \A q \in Procs \ {0} :
                     GetPrevPartWork(dist, q)
                       = GetPrevPartWork(dist, q - 1) + GetPartWork(dist, q - 1)
    /\ (procCount > 0 /\ pc[0] = "R_Send") =>
         distributedWork[0]
           = GetPrevPartWork(WorkSplitter(Len(y[0]), procCount), procNum[0])
    /\ (procCount > 0 /\ pc[0] \in {"R_Gather", "R_Bcast"}) =>
         distributedWork[0] = Len(y[0])

\* In the third iteration, 3 Segments over 2 processes: process 1 has taken
\* the slice of CalculateIndexOfMaxR, the two Segments after the first, and
\* the coordinator has gone through both sending loops to the gather.
C16_Witness ==
  /\ policy = "Parallel" /\ procCount = 2
  /\ iterationIndex[0] = 2 /\ iterationIndex[1] = 2
  /\ pc[0] = "R_Gather" /\ pc[1] = "R_Result"
  /\ localY[1] = SubSeq(y[0], 2, 3) /\ localY[0] = SubSeq(y[0], 1, 1)
  /\ y[0][1] # y[0][2] /\ distributedWork[0] = 3

\* GetPartWork(q) in the distribution process p works with.
PartAt(p, q) == GetPartWork(WorkSplitter(Len(y[p]), procCount), q)

\* Whether some point-to-point message is sent and not yet received.
InFlight == \E q \in Procs : toWorker[q] # <<>> \/ toRoot[q] # <<>>

\* Whether an MPI_Bcast of process p returns in the step.
BcastCompletes(p) == pc[p] \in {"M_Bcast", "R_Bcast"} /\ pc'[p] # pc[p]

\* C17 as stated, its last clause: no point-to-point message is in flight
\* when a broadcast completes, at whichever process.
C17_Original ==
  [][\A p \in Procs : BcastCompletes(p) => ~InFlight]_vars

\* Who sends and who receives: only processes other than the coordinator
\* with a non-zero part, and all of them; a message in flight was sent in
\* the sub-computation and iteration the coordinator is still in; a process
\* without units holds no Segment and has no message; nothing is in flight
\* once a process has returned.
C17_Matching ==
  (policy = "Parallel" /\ procCount > 0) =>
    /\ \A q \in Procs :
         /\ Len(toWorker[q]) <= 1 /\ Len(toRoot[q]) <= 1
         /\ toWorker[q] # <<>> =>
              /\ q # 0 /\ PartAt(0, q) # 0
              /\ Head(toWorker[q]).iter = iterationIndex[0]
              /\ \/ /\ Head(toWorker[q]).kind = "M_slice"
                    /\ pc[0] \in {"M_Send", "M_Reduce"}
                 \/ /\ Head(toWorker[q]).kind = "R_slice"
                    /\ pc[0] \in {"R_Send", "R_Gather"}
         /\ toRoot[q] # <<>> =>
              /\ q # 0 /\ PartAt(0, q) # 0
              /\ Head(toRoot[q]).iter = iterationIndex[0]
              /\ Head(toRoot[q]).kind = "R_result"
              /\ pc[0] \in {"R_Send", "R_Gather"}
              /\ pc[0] = "R_Gather" => procNum[0] <= q
         /\ pc[q] \in {"M_Recv", "R_Recv", "R_Result"} =>
              q # 0 /\ PartAt(q, q) # 0
         /\ (HoldsSlice(q) /\ PartAt(q, q) = 0) =>
              /\ localY[q] = <<>>
              /\ iterationIndex[q] = iterationIndex[0] =>
                   toWorker[q] = <<>> /\ toRoot[q] = <<>>
         /\ Returned(q) => ~InFlight
    /\ pc[0] \in {"M_Send", "R_Send", "R_Gather"} =>
         /\ procNum[0] \in 1 .. procCount - 1
         /\ PartAt(0, procNum[0]) # 0
    /\ \A q \in Procs \ {0} :
         PartAt(0, q) # 0 =>
           /\ (pc[0] \in {"M_Send", "M_Reduce"}
                 /\ (pc[0] = "M_Send" => q < procNum[0])) =>
                \/ toWorker[q] # <<>>
                \/ /\ pc[q] \in {"M_Reduce", "M_Bcast"}
                   /\ iterationIndex[q] = iterationIndex[0]
           /\ (pc[0] \in {"R_Send", "R_Gather"}
                 /\ (pc[0] = "R_Send" => q < procNum[0])) =>
                \/ toWorker[q] # <<>>
                \/ pc[q] = "R_Result" /\ iterationIndex[q] = iterationIndex[0]
                \/ toRoot[q] # <<>>
                \/ pc[0] = "R_Gather" /\ q < procNum[0]
                     /\ results[0][q] = localR[q]

\* When a broadcast completes at the coordinator nothing is in flight; when
\* it completes at another process, what is in flight was sent after the
\* coordinator completed this broadcast: in the sub-computation that
\* follows it or, past a broadcast of M, in the one after that.
C17_BroadcastStep ==
  \A p \in Procs :
    BcastCompletes(p) =>
      /\ p = 0 => ~InFlight
      /\ \A q \in Procs :
           /\ toWorker[q] # <<>> =>
                \/ /\ Head(toWorker[q]).kind = "M_slice"
                   /\ Head(toWorker[q]).iter = iterationIndex[p] + 1
                \/ /\ Head(toWorker[q]).kind = "R_slice"
                   /\ Head(toWorker[q]).iter = iterationIndex[p]
                   /\ pc[p] = "M_Bcast"
           /\ toRoot[q] # <<>> =>
                /\ pc[p] = "M_Bcast"
                /\ Head(toRoot[q]).iter = iterationIndex[p]

\* C17, amended: message matching as stated, with nothing in flight when a
\* broadcast completes at the coordinator or when GetMin returns; at
\* another process a broadcast may complete while messages the coordinator
\* or a third process sent after it are in flight.
C17_MessageMatching == []C17_Matching /\ [][C17_BroadcastStep]_vars

\* 2 Segments over 3 processes: process 2 has no units and no Segment, its
\* broadcast of M can complete, and the coordinator, past that broadcast,
\* has sent process 1 the slice of CalculateIndexOfMaxR.
C17_Witness ==
  /\ policy = "Parallel" /\ procCount = 3
  /\ \A q \in Procs : iterationIndex[q] = 1
  /\ PartAt(0, 2) = 0 /\ localY[2] = <<>>
  /\ pc[2] = "M_Bcast" /\ BcastReady(2, Len(coll[2]))
  /\ toWorker[1] # <<>> /\ Head(toWorker[1]).kind = "R_slice"
  /\ toWorker[2] = <<>> /\ toRoot[2] = <<>>

\* The collectives of one iteration.
PerIteration == IF policy = "Parallel" THEN 3 ELSE 2

\* The blocking calls that may follow one another at one process.
Follows(from, to) ==
  IF policy = "Sequential"
    THEN \/ from = "GetMin" /\ to = "M_Bcast"
         \/ from = "M_Bcast" /\ to = "R_Bcast"
         \/ from = "R_Bcast" /\ to \in {"M_Bcast", "converged", "exhausted"}
    ELSE \/ from \in {"GetMin", "R_Bcast"}
              /\ to \in {"M_Send", "M_Recv", "M_Reduce"}
         \/ from = "R_Bcast" /\ to \in {"converged", "exhausted"}
         \/ from = "M_Send" /\ to \in {"M_Send", "M_Reduce"}
         \/ from = "M_Recv" /\ to = "M_Reduce"
         \/ from = "M_Reduce" /\ to = "M_Bcast"
         \/ from = "M_Bcast"
              /\ to \in {"R_Send", "R_Recv", "R_Gather", "R_Bcast"}
         \/ from = "R_Send" /\ to \in {"R_Send", "R_Gather"}
         \/ from = "R_Recv" /\ to = "R_Result"
         \/ from = "R_Result" /\ to = "R_Bcast"
         \/ from = "R_Gather" /\ to \in {"R_Gather", "R_Bcast"}

\* The k-th collective of every process is the same call of the same
\* iteration: per iteration the reduction (distributed form only), the
\* broadcast of M, the broadcast of the record; the call a process stands
\* in is its last.  The single-worker form has no reduction and no message.
C18_Collectives ==
  /\ \A p \in Procs :
       /\ \A k \in 1 .. Len(coll[p]) :
            /\ coll[p][k].iter = (k - 1) \div PerIteration
            /\ coll[p][k].kind = "Reduce"
                 <=> (policy = "Parallel" /\ k % 3 = 1)
            /\ \A q \in Procs :
                 k <= Len(coll[q]) =>
                   /\ coll[q][k].kind = coll[p][k].kind
                   /\ coll[q][k].iter = coll[p][k].iter
       /\ pc[p] \in {"M_Reduce", "M_Bcast", "R_Bcast"} =>
            /\ Len(coll[p]) > 0
            /\ iterationIndex[p] = (Len(coll[p]) - 1) \div PerIteration
            /\ Len(coll[p]) % PerIteration
                 = (CASE pc[p] = "M_Reduce" -> 1
                      [] pc[p] = "M_Bcast" -> PerIteration - 1
                      [] OTHER -> 0)
       /\ policy = "Sequential" =>
            /\ toWorker[p] = <<>> /\ toRoot[p] = <<>>
            /\ pc[p] \in {"GetMin", "M_Bcast", "R_Bcast", "converged",
                          "exhausted"}
  /\ (policy = "Parallel" /\ \E p \in Procs : pc[p] # "GetMin") =>
       \E p \in Procs : pc[p] \in {"M_Send", "M_Recv"} \/ coll[p] # <<>>

\* The steps of a process follow the order of the iteration: M is written
\* by Calculate_M and by the broadcast of M, m only when the broadcast of M
\* returns and from the value broadcast, the collection only when the
\* broadcast of the record of the same iteration returns and at the index
\* broadcast.
C18_Step ==
  \A p \in Procs :
    /\ pc'[p] # pc[p] => Follows(pc[p], pc'[p])
    /\ m'[p] # m[p] =>
         /\ pc[p] = "M_Bcast"
         /\ M'[p] = coll[0][Len(coll[p])].value
         /\ m'[p] = Calculate_m(M'[p], r)
    /\ M'[p] # M[p] =>
         IF policy = "Parallel" THEN pc[p] \in {"M_Reduce", "M_Bcast"}
                                ELSE pc[p] \in {"GetMin", "M_Bcast", "R_Bcast"}
    /\ (y'[p] # y[p] \/ iterationIndex'[p] # iterationIndex[p]) =>
         /\ pc[p] = "R_Bcast"
         /\ Len(coll[0]) >= Len(coll[p])
         /\ coll[0][Len(coll[p])].iter = iterationIndex[p]
         /\ indexOfMaxR'[p] = coll[0][Len(coll[p])].value
         /\ iterationIndex'[p] = iterationIndex[p] + 1
         /\ y'[p] = Split(y[p], indexOfMaxR'[p].second,
                           NewPoint(f, y[p][indexOfMaxR'[p].second + 1], m[p]))

\* C18: the order of the steps of an iteration, the collection unchanged
\* until the iteration's record has been received, the k-th collectives of
\* all processes matching, the two broadcasts in both forms, the reduction
\* and the messages in the distributed form only.
C18_StepOrder == []C18_Collectives /\ [][C18_Step]_vars

\* 3 processes in the second iteration: the coordinator has called its sixth
\* collective, the broadcast of the record, while process 2 is still in its
\* fifth, the broadcast of M.
C18_Witness ==
  /\ policy = "Parallel" /\ procCount = 3
  /\ pc[0] = "R_Bcast" /\ Len(coll[0]) = 6
  /\ pc[2] = "M_Bcast" /\ Len(coll[2]) = 5
  /\ Len(y[2]) = 2 /\ iterationIndex[2] = 1
  /\ coll[0][4].kind = "Reduce" /\ coll[2][4].kind = "Reduce"

\* Whether process p holds the m of its present iteration: from the return
\* of the broadcast of M to the inspection of the winning Segment.
Holds_m(p) == pc[p] \in {"R_Send", "R_Recv", "R_Result", "R_Gather", "R_Bcast"}

\* Calculate_m is called with M >= 0 and r > 1 and neither assertion fails;
\* m is 1 when M = 0 and r * M otherwise, m > 0, and 2 * m is not zero.
C19_Asserts ==
  \A p \in Procs :
    /\ pc[p] # "assert_failed"
    /\ Holds_m(p) =>
         /\ ~DLess(M[p], D(0)) /\ M[p] # NAN /\ DGreater(r, D(1))
         /\ m[p] = (IF M[p] = D(0) THEN D(1) ELSE DMul(r, M[p]))
         /\ DGreater(m[p], D(0))
         /\ DMul(D(2), m[p]) # D(0)

\* C19: the assertions of Calculate_m hold, m > 0, and neither the divisor
\* m * (end - begin) of the characteristic of any Segment nor the divisor
\* 2 * m of the new point is zero.
C19_DivisorsNotZero ==
  /\ C19_Asserts
  /\ \A p \in Procs :
       Holds_m(p) =>
         \A i \in 1 .. Len(y[p]) :
           DMul(m[p], DSub(y[p][i].end, y[p][i].begin)) # D(0)

\* C20: the index of the record a process picks the winning Segment with
\* is at least 0 and less than the number of Segments, so that no y.at
\* fails; the largest of the coordinator's results is not the unfilled slot
\* (-DBL_MAX, -1) of a process without units, and the index, moved by
\* GetPrevPartWork, lies in the slice of the process it came from.
C20_IndexInRange ==
  /\ \A p \in Procs :
       /\ pc[p] \notin {"out_of_range", "mpi_error"}
       /\ (pc[p] = "R_Bcast" /\ Len(coll[0]) >= Len(coll[p])) =>
            coll[0][Len(coll[p])].value.second \in 0 .. Len(y[p]) - 1
  /\ (policy = "Parallel" /\ procCount > 0 /\ pc[0] = "R_Bcast") =>
       LET dist == WorkSplitter(Len(y[0]), procCount)
           winner == max_element(results[0], procCount, 1, 0)
       IN  /\ GetPartWork(dist, winner) # 0
           /\ results[0][winner] # Pair(D(-DBL_MAX), -1)
           /\ results[0][winner].second \in 0 .. GetPartWork(dist, winner) - 1
           /\ indexOfMaxR[0].second - GetPrevPartWork(dist, winner)
                \in 0 .. GetPartWork(dist, winner) - 1
           /\ y[0][indexOfMaxR[0].second + 1]
                = localY[winner][results[0][winner].second + 1]

\* 2 Segments over 4 processes: the slots of processes 2 and 3 are unfilled,
\* process 1 holds the largest characteristic, and the coordinator's record
\* has index 1.
C20_Witness ==
  /\ policy = "Parallel" /\ procCount = 4 /\ Len(y[0]) = 2
  /\ pc[0] = "R_Bcast"
  /\ results[0][2] = Pair(D(-DBL_MAX), -1)
  /\ results[0][3] = Pair(D(-DBL_MAX), -1)
  /\ max_element(results[0], procCount, 1, 0) = 1
  /\ indexOfMaxR[0].second = 1

=============================================================================
